---------------------------- MODULE Spec2Model ----------------------------
(***************************************************************************)
(* Model of Sources/tsan_utils/tsan_utils.c: a MAC policy whose only hook, *)
(* policy_should_allow_open, gates opens of "ourApplicationsFile" on the   *)
(* name of the calling process, and the kext entry point demoKextStart     *)
(* that registers the policy with the host.                                *)
(*                                                                         *)
(* C strings are sequences of character codes (the terminating NUL is the  *)
(* implicit character 0 past the end).  A `const char *` handed out by the *)
(* host is an index into the host's name table; 0 is the null pointer.     *)
(***************************************************************************)
EXTENDS Integers, Sequences, FiniteSets, TLC

(***************************************************************************)
(* Bounds of the model.                                                    *)
(***************************************************************************)
NThreads == 2          \* host threads that may be inside the hook at once
MaxStarts == 2         \* invocations of demoKextStart by the host

(***************************************************************************)
(* Character codes and string literals.                                    *)
(***************************************************************************)
AsciiOf == ("A" :> 65) @@ ("F" :> 70) @@ ("O" :> 79) @@ ("a" :> 97)
        @@ ("c" :> 99) @@ ("e" :> 101) @@ ("f" :> 102) @@ ("h" :> 104)
        @@ ("i" :> 105) @@ ("l" :> 108) @@ ("n" :> 110) @@ ("o" :> 111)
        @@ ("p" :> 112) @@ ("r" :> 114) @@ ("s" :> 115) @@ ("t" :> 116)
        @@ ("u" :> 117)

Str(cs) == [i \in 1..Len(cs) |-> AsciiOf[cs[i]]]

\* the literal of line 19
ourApplicationsFile ==
    Str(<<"o","u","r","A","p","p","l","i","c","a","t","i","o","n","s","F","i","l","e">>)

\* the literal of line 23
ourApplication ==
    Str(<<"o","u","r","A","p","p","l","i","c","a","t","i","o","n">>)

EPERM == 1
MAXCOMLEN == 16
NULL == 0

(***************************************************************************)
(* libc: strcmp, strlcpy.                                                  *)
(***************************************************************************)
CharAt(s, i) == IF i <= Len(s) THEN s[i] ELSE 0

RECURSIVE StrcmpFrom(_, _, _)
StrcmpFrom(a, b, i) ==
    IF CharAt(a, i) # CharAt(b, i) THEN CharAt(a, i) - CharAt(b, i)
    ELSE IF CharAt(a, i) = 0 THEN 0
    ELSE StrcmpFrom(a, b, i + 1)

tolower(c) == IF c \in 65..90 THEN c + 32 ELSE c

\* a comparison that folds case, as strcasecmp does
strcasecmp(a, b) ==
    StrcmpFrom([i \in 1..Len(a) |-> tolower(a[i])],
               [i \in 1..Len(b) |-> tolower(b[i])], 1)

strcmp(a, b) == StrcmpFrom(a, b, 1)

\* strlcpy(dst, src, size): at most size-1 characters, always terminated
strlcpy(src, size) ==
    IF size <= 0 THEN <<>>
    ELSE SubSeq(src, 1, IF Len(src) < size - 1 THEN Len(src) ELSE size - 1)

(***************************************************************************)
(* The host (kernel) side: the name table behind vnode_getname, the names  *)
(* processes carry, and the values the host passes to the hook.            *)
(***************************************************************************)
\* v_name of the vnodes the host may open; entry i is what pointer i refers to
FileNames ==
    << ourApplicationsFile,
       ourApplication,
       SubSeq(ourApplicationsFile, 1, Len(ourApplicationsFile) - 1),
       ourApplicationsFile \o Str(<<"s">>),
       Str(<<"o","u","r","a","p","p","l","i","c","a","t","i","o","n","s","f","i","l","e">>),
       Str(<<"o","t","h","e","r","F","i","l","e">>) >>

\* vnode 0 has no name; vnode i > 0 carries FileNames[i]
Vnodes == 0..Len(FileNames)

\* p_comm of the processes that may call open()
ProcNames ==
    { ourApplication,
      Str(<<"O","u","r","A","p","p","l","i","c","a","t","i","o","n">>),
      Str(<<"o","t","h","e","r","A","p","p">>),
      ourApplication \o Str(<<"s","F">>),
      SubSeq(ourApplication, 1, Len(ourApplication) - 1) }

Creds == {"cred0", "cred1"}
Labels == {"label0", "label1"}
AccModes == {1, 2}             \* FREAD, FWRITE

\* what the host may pass to one hook invocation
Inputs ==
    [vp |-> Vnodes, p_comm |-> ProcNames,
     cred |-> Creds, label |-> Labels, acc_mode |-> AccModes]

\* the inputs of the concurrent specification: a vnode without a name, the
\* protected file, another file; the allowed process and another one
ConcInputs ==
    [vp |-> {0, 1, 2},
     p_comm |-> {ourApplication, Str(<<"o","t","h","e","r","A","p","p">>)},
     cred |-> {"cred0"}, label |-> {"label0"}, acc_mode |-> {1}]

\* what mac_policy_register may answer, and the handles it may hand out
HostStatus == {0, 12, 17}      \* success, ENOMEM, EEXIST
Handles == {1, 2}
XData == {"xd"}

Threads == 1..NThreads

Deref(p) == FileNames[p]

VARIABLES
    handle,                \* mac_policy_handle_t handle (line 52)
    our_ops,               \* struct mac_policy_ops our_ops (lines 33-35)
    policy_configuration,  \* struct mac_policy_conf policy_configuration
    registered,            \* host: the policy is in the host's policy list
    nameRefs,              \* host: references outstanding on each name
    starts,                \* invocations of demoKextStart so far
    regCalls,              \* calls of mac_policy_register so far
    regArgs,               \* arguments of the last mac_policy_register call
    hostStatus,            \* what the last mac_policy_register call answered
    startRet,              \* what the last demoKextStart returned
    pc,                    \* per thread: the line of the hook it is at
    args,                  \* per thread: cred, vp, label, acc_mode
    comm,                  \* per thread: p_comm of its current process
    locals,                \* per thread: the hook's locals, {} = no value
    ret,                   \* per thread: {value the last hook call returned}
    trace                  \* per thread: calls the hook made, in order

vars == << handle, our_ops, policy_configuration, registered, nameRefs,
           starts, regCalls, regArgs, hostStatus, startRet,
           pc, args, comm, locals, ret, trace >>

globals == << handle, our_ops, policy_configuration >>
hostVars == << registered, starts, regCalls, regArgs, hostStatus, startRet >>

NoArgs == [cred |-> "none", vp |-> NULL, label |-> "none", acc_mode |-> 0]
NoLocals == [vnodeName |-> {}, procName |-> {}]
NoRet == {}

Init ==
    /\ handle = 0
    /\ our_ops = [mpo_vnode_check_open |-> "policy_should_allow_open"]
    /\ policy_configuration =
         [ mpc_name            |-> "com.demo.protectFileDemo",
           mpc_fullname        |-> "Protect File Demo",
           mpc_labelnames      |-> NULL,
           mpc_labelname_count |-> 0,
           mpc_ops             |-> "our_ops",
           mpc_loadtime_flags  |-> "MPC_LOADTIME_FLAG_UNLOADOK",
           mpc_field_off       |-> NULL,
           mpc_runtime_flags   |-> 0 ]
    /\ registered = FALSE
    /\ nameRefs = [n \in 1..Len(FileNames) |-> 0]
    /\ starts = 0
    /\ regCalls = 0
    /\ regArgs = [mpc |-> "none", handlep |-> "none", xd |-> "none"]
    /\ hostStatus = NoRet
    /\ startRet = NoRet
    /\ pc = [t \in Threads |-> "idle"]
    /\ args = [t \in Threads |-> NoArgs]
    /\ comm = [t \in Threads |-> <<>>]
    /\ locals = [t \in Threads |-> NoLocals]
    /\ ret = [t \in Threads |-> NoRet]
    /\ trace = [t \in Threads |-> <<>>]

(***************************************************************************)
(* Host services the hook calls.                                           *)
(***************************************************************************)
\* vnode_getname(vp): the vnode's name with a reference taken, or NULL
vnode_getname(vp) == vp

\* the host's reference counts after vnode_getname(vp)
RefsAfterGet(refs, vp) ==
    IF vp = NULL THEN refs ELSE [refs EXCEPT ![vp] = @ + 1]

\* the host's reference counts after vnode_putname(name)
RefsAfterPut(refs, name) ==
    IF name = NULL THEN refs ELSE [refs EXCEPT ![name] = @ - 1]

\* proc_selfname handed sizeof(char *) instead of sizeof(procName)
proc_selfnamePointerSize(p_comm, size) == strlcpy(p_comm, 8)

\* proc_selfname(buf, size): the current process's p_comm copied into buf
proc_selfname(p_comm, size) == strlcpy(p_comm, size)

Event(op, arg) == << op, arg >>

(***************************************************************************)
(* policy_should_allow_open, one action per statement.                     *)
(***************************************************************************)
\* the host enters the hook through the registered operations table
Call(t, in) ==
    /\ pc[t] = "idle"
    /\ registered
    /\ "mpo_vnode_check_open" \in DOMAIN our_ops
    /\ our_ops.mpo_vnode_check_open = "policy_should_allow_open"
    /\ \E vp \in in.vp, cred \in in.cred, label \in in.label,
          acc_mode \in in.acc_mode :
         args' = [args EXCEPT ![t] = [cred |-> cred, vp |-> vp,
                                      label |-> label, acc_mode |-> acc_mode]]
    /\ \E p_comm \in in.p_comm : comm' = [comm EXCEPT ![t] = p_comm]
    /\ pc' = [pc EXCEPT ![t] = "L18"]
    /\ locals' = [locals EXCEPT ![t] = NoLocals]
    /\ ret' = [ret EXCEPT ![t] = NoRet]
    /\ trace' = [trace EXCEPT ![t] = <<>>]
    /\ UNCHANGED << globals, hostVars, nameRefs >>

\* line 18: const char *vnodeName = vnode_getname(vp);
L18(t) ==
    /\ pc[t] = "L18"
    /\ locals' = [locals EXCEPT ![t].vnodeName = {vnode_getname(args[t].vp)}]
    /\ nameRefs' = RefsAfterGet(nameRefs, args[t].vp)
    /\ trace' = [trace EXCEPT
                   ![t] = Append(@, Event("vnode_getname", vnode_getname(args[t].vp)))]
    /\ pc' = [pc EXCEPT ![t] = "L19"]
    /\ UNCHANGED << globals, hostVars, args, comm, ret >>

\* strncmp(a, b, n): compares at most n characters
strncmp(a, b, n) ==
    strcmp(SubSeq(a, 1, IF Len(a) < n THEN Len(a) ELSE n),
           SubSeq(b, 1, IF Len(b) < n THEN Len(b) ELSE n))

\* line 19 comparing only the first strlen("ourApplicationsFile") characters
IsGatedFilePrefix(vnodeName) ==
    vnodeName # NULL
    /\ strncmp(Deref(vnodeName), ourApplicationsFile, Len(ourApplicationsFile)) = 0

\* line 19 failing closed on a missing name
IsGatedFileOrNull(vnodeName) ==
    vnodeName = NULL \/ strcmp(Deref(vnodeName), ourApplicationsFile) = 0

\* line 19 without the comparison
IsGatedFileAnyName(vnodeName) == vnodeName # NULL

\* the condition of line 19
IsGatedFile(vnodeName) ==
    vnodeName # NULL /\ strcmp(Deref(vnodeName), ourApplicationsFile) = 0

\* line 19: if (vnodeName && strcmp(vnodeName, "ourApplicationsFile") == 0)
L19(t) ==
    /\ pc[t] = "L19"
    /\ \E vnodeName \in locals[t].vnodeName :
         /\ trace' = [trace EXCEPT
                        ![t] = IF vnodeName = NULL THEN @
                               ELSE Append(@, Event("strcmp_vnodeName", vnodeName))]
         /\ pc' = [pc EXCEPT
                     ![t] = IF IsGatedFile(vnodeName) THEN "L21" ELSE "L29"]
    /\ UNCHANGED << globals, hostVars, nameRefs, args, comm, locals, ret >>

\* lines 20-21 with procName in static storage: one buffer for all threads
L21StaticBuffer(t) ==
    /\ pc[t] = "L21"
    /\ locals' = [u \in Threads |->
                    [locals[u] EXCEPT
                       !.procName = {proc_selfname(comm[t], MAXCOMLEN + 1)}]]
    /\ trace' = [trace EXCEPT
                   ![t] = Append(@, Event("proc_selfname", MAXCOMLEN + 1))]
    /\ pc' = [pc EXCEPT ![t] = "L23"]
    /\ UNCHANGED << globals, hostVars, nameRefs, args, comm, ret >>

\* lines 20-21: char procName[MAXCOMLEN+1]; proc_selfname(procName, sizeof(procName));
L21(t) ==
    /\ pc[t] = "L21"
    /\ locals' = [locals EXCEPT
                    ![t].procName = {proc_selfname(comm[t], MAXCOMLEN + 1)}]
    /\ trace' = [trace EXCEPT
                   ![t] = Append(@, Event("proc_selfname", MAXCOMLEN + 1))]
    /\ pc' = [pc EXCEPT ![t] = "L23"]
    /\ UNCHANGED << globals, hostVars, nameRefs, args, comm, ret >>

\* the condition of line 23
IsOtherProcess(procName) == strcmp(procName, ourApplication) # 0

\* line 23: if (strcmp(procName, "ourApplication") != 0)
L23(t) ==
    /\ pc[t] = "L23"
    /\ \E procName \in locals[t].procName :
         pc' = [pc EXCEPT
                  ![t] = IF IsOtherProcess(procName) THEN "L24" ELSE "L29"]
    /\ trace' = [trace EXCEPT ![t] = Append(@, Event("strcmp_procName", NULL))]
    /\ UNCHANGED << globals, hostVars, nameRefs, args, comm, locals, ret >>

\* line 24 missing: the denial path returns without releasing the name
L24NoRelease(t) ==
    /\ pc[t] = "L24"
    /\ pc' = [pc EXCEPT ![t] = "L25"]
    /\ UNCHANGED << globals, hostVars, nameRefs, args, comm, locals, ret, trace >>

\* line 24: vnode_putname(vnodeName);
L24(t) ==
    /\ pc[t] = "L24"
    /\ \E vnodeName \in locals[t].vnodeName :
         /\ nameRefs' = RefsAfterPut(nameRefs, vnodeName)
         /\ trace' = [trace EXCEPT
                        ![t] = Append(@, Event("vnode_putname", vnodeName))]
    /\ pc' = [pc EXCEPT ![t] = "L25"]
    /\ UNCHANGED << globals, hostVars, args, comm, locals, ret >>

\* line 25: return EPERM;
L25(t) ==
    /\ pc[t] = "L25"
    /\ ret' = [ret EXCEPT ![t] = {EPERM}]
    /\ locals' = [locals EXCEPT ![t] = NoLocals]
    /\ pc' = [pc EXCEPT ![t] = "idle"]
    /\ UNCHANGED << globals, hostVars, nameRefs, args, comm, trace >>

\* line 29 missing: the allow paths return without releasing the name
L29NoRelease(t) ==
    /\ pc[t] = "L29"
    /\ pc' = [pc EXCEPT ![t] = "L30"]
    /\ UNCHANGED << globals, hostVars, nameRefs, args, comm, locals, ret, trace >>

\* where line 29 leaves the thread: vnode_putname returns; the source passes
\* it NULL when there was no name, and does not say what the host does with
\* that, so there the host may return or fault and never return
AfterPutname(vnodeName) == IF vnodeName = NULL THEN {"L30", "fault"} ELSE {"L30"}

\* line 29: vnode_putname(vnodeName);
L29(t) ==
    /\ pc[t] = "L29"
    /\ \E vnodeName \in locals[t].vnodeName :
         /\ nameRefs' = RefsAfterPut(nameRefs, vnodeName)
         /\ trace' = [trace EXCEPT
                        ![t] = Append(@, Event("vnode_putname", vnodeName))]
         /\ \E next \in AfterPutname(vnodeName) : pc' = [pc EXCEPT ![t] = next]
    /\ UNCHANGED << globals, hostVars, args, comm, locals, ret >>

\* line 30: return 0;
L30(t) ==
    /\ pc[t] = "L30"
    /\ ret' = [ret EXCEPT ![t] = {0}]
    /\ locals' = [locals EXCEPT ![t] = NoLocals]
    /\ pc' = [pc EXCEPT ![t] = "idle"]
    /\ UNCHANGED << globals, hostVars, nameRefs, args, comm, trace >>

\* any statement of the hook, on thread t
HookStep(t) ==
    L18(t) \/ L19(t) \/ L21(t) \/ L23(t) \/ L24(t) \/ L25(t) \/ L29(t) \/ L30(t)

(***************************************************************************)
(* demoKextStart: return mac_policy_register(&policy_configuration,        *)
(*                                           &handle, d);                  *)
(***************************************************************************)
\* the host's mac_policy_register: answers `status`, and on success stores a
\* handle through handlep and marks the policy loaded
mac_policy_register(mpc, handlep, xd, status, h) ==
    /\ regCalls' = regCalls + 1
    /\ regArgs' = [mpc |-> mpc, handlep |-> handlep, xd |-> xd]
    /\ hostStatus' = {status}
    /\ IF status = 0
       THEN /\ handle' = h
            /\ registered' = TRUE
            /\ policy_configuration' =
                 [policy_configuration EXCEPT !.mpc_runtime_flags = 1]
       ELSE UNCHANGED << handle, registered, policy_configuration >>

\* demoKextStart dropping the host's answer: registers, then returns 0
demoKextStartIgnoresStatus ==
    /\ starts < MaxStarts
    /\ starts' = starts + 1
    /\ \E d \in XData, status \in HostStatus, h \in Handles :
         /\ mac_policy_register("policy_configuration", "handle", d, status, h)
         /\ startRet' = {0}
    /\ UNCHANGED << our_ops, nameRefs, pc, args, comm, locals, ret, trace >>

demoKextStart ==
    /\ starts < MaxStarts
    /\ starts' = starts + 1
    /\ \E d \in XData, status \in HostStatus, h \in Handles :
         /\ mac_policy_register("policy_configuration", "handle", d, status, h)
         /\ startRet' = {status}
    /\ UNCHANGED << our_ops, nameRefs, pc, args, comm, locals, ret, trace >>

(***************************************************************************)
(* Specifications.  Spec: the host runs one hook invocation at a time,     *)
(* over all inputs.  SpecConc: NThreads host threads run the hook          *)
(* concurrently, interleaved statement by statement.                       *)
(***************************************************************************)
Next ==
    \/ demoKextStart
    \/ Call(1, Inputs)
    \/ HookStep(1)

Spec == Init /\ [][Next]_vars

NextConc ==
    \/ demoKextStart
    \/ \E t \in Threads : Call(t, ConcInputs)
    \/ \E t \in Threads : HookStep(t)

SpecConc == Init /\ [][NextConc]_vars

(***************************************************************************)
(* Vocabulary of the properties.                                           *)
(***************************************************************************)
\* thread t's last invocation of the hook has returned
Returned(t) == pc[t] = "idle" /\ ret[t] # NoRet

\* the host supplied a file name to t's invocation, and it is `name`
FileNameIs(t, name) == args[t].vp # NULL /\ FileNames[args[t].vp] = name

\* the host supplied a file name to t's invocation, other than `name`
FileNameIsNot(t, name) == args[t].vp # NULL /\ FileNames[args[t].vp] # name

\* positions of the calls of `op` in a trace
Calls(tr, op) == {i \in 1..Len(tr) : tr[i][1] = op}

\* positions of the calls of `op` on a non-null name
NameCalls(tr, op) == {i \in Calls(tr, op) : tr[i][2] # NULL}

\* t's invocation called vnode_getname and got a non-null name
GotName(t) == NameCalls(trace[t], "vnode_getname") # {}

\* t's invocation called vnode_getname and got NULL
GotNull(t) ==
    Calls(trace[t], "vnode_getname") # {} /\ NameCalls(trace[t], "vnode_getname") = {}

\* names t's invocation has obtained and not yet released
Held(t) ==
    Cardinality(NameCalls(trace[t], "vnode_getname"))
      - Cardinality(NameCalls(trace[t], "vnode_putname"))

\* thread t's part of the state
Invocation(t) == << pc[t], args[t], comm[t], locals[t], ret[t], trace[t] >>

\* the step is one of thread t's hook invocation, its entry included
StepOf(t) == Invocation(t)' # Invocation(t)

(***************************************************************************)
(* C1: whenever the hook has returned from an invocation whose file name   *)
(* is exactly "ourApplicationsFile" and whose process name is anything but *)
(* exactly "ourApplication", it returned EPERM.                            *)
(***************************************************************************)
C1_DenyOtherProcess ==
    \A t \in Threads :
        (Returned(t) /\ FileNameIs(t, ourApplicationsFile) /\ comm[t] # ourApplication)
            => ret[t] = {EPERM}

\* a process whose name differs from "ourApplication" only in case was denied
C1_Witness ==
    \E t \in Threads :
        /\ Returned(t)
        /\ FileNameIs(t, ourApplicationsFile)
        /\ comm[t] # ourApplication
        /\ strcasecmp(comm[t], ourApplication) = 0
        /\ ret[t] = {EPERM}

(***************************************************************************)
(* C2: whenever the hook has returned from an invocation whose file name   *)
(* is non-null and not exactly "ourApplicationsFile", it returned 0,       *)
(* whatever the process name, access mode, credential and label.           *)
(***************************************************************************)
C2_AllowOtherFile ==
    \A t \in Threads :
        (Returned(t) /\ FileNameIsNot(t, ourApplicationsFile)) => ret[t] = {0}

\* a file whose name extends the protected name was opened by another process
C2_Witness ==
    \E t \in Threads :
        /\ Returned(t)
        /\ FileNameIs(t, ourApplicationsFile \o Str(<<"s">>))
        /\ comm[t] # ourApplication
        /\ args[t].acc_mode = 2 /\ args[t].cred = "cred1" /\ args[t].label = "label1"
        /\ ret[t] = {0}

(***************************************************************************)
(* C3: whenever the hook has returned from an invocation whose file name   *)
(* is exactly "ourApplicationsFile" and whose process name is exactly      *)
(* "ourApplication", it returned 0, whatever the access mode.              *)
(***************************************************************************)
C3_AllowOurApplication ==
    \A t \in Threads :
        (Returned(t) /\ FileNameIs(t, ourApplicationsFile) /\ comm[t] = ourApplication)
            => ret[t] = {0}

\* ourApplication opened the protected file for writing and was allowed
C3_Witness ==
    \E t \in Threads :
        /\ Returned(t)
        /\ FileNameIs(t, ourApplicationsFile)
        /\ comm[t] = ourApplication
        /\ args[t].acc_mode = 2
        /\ ret[t] = {0}

(***************************************************************************)
(* C4: in an invocation where vnode_getname returned NULL the hook never   *)
(* calls proc_selfname, never compares the process name, never reaches the *)
(* denial path, and returns 0.                                             *)
(***************************************************************************)
C4_NullNameAllows ==
    \A t \in Threads :
        GotNull(t) =>
            /\ Calls(trace[t], "proc_selfname") = {}
            /\ Calls(trace[t], "strcmp_procName") = {}
            /\ pc[t] \notin {"L21", "L23", "L24", "L25"}
            /\ ret[t] # {EPERM}
            /\ Returned(t) => ret[t] = {0}

\* a process other than ourApplication opened a vnode without a name
C4_Witness ==
    \E t \in Threads :
        /\ Returned(t)
        /\ GotNull(t)
        /\ comm[t] # ourApplication
        /\ ret[t] = {0}

(***************************************************************************)
(* C5: in an invocation where vnode_getname returned a non-null name, the  *)
(* hook calls vnode_putname on a name at most once, only on that name, and *)
(* never reads the name afterwards; once it has returned (with 0 or with   *)
(* EPERM) it has released the name exactly once and the host's reference   *)
(* count of every name is back to zero.                                    *)
(***************************************************************************)
C5_ReleasedExactlyOnce ==
    \A t \in Threads :
        GotName(t) =>
            LET tr == trace[t]
                puts == Calls(tr, "vnode_putname")
            IN  /\ Cardinality(puts) <= 1
                /\ \A i \in puts : tr[i][2] = tr[1][2]
                /\ \A i \in puts : \A j \in (i + 1)..Len(tr) :
                       tr[j][1] \notin {"strcmp_vnodeName", "vnode_putname"}
                /\ Returned(t) =>
                       /\ Cardinality(puts) = 1
                       /\ Held(t) = 0
                       /\ \A n \in DOMAIN nameRefs : nameRefs[n] = 0

\* the denial path has returned EPERM with the name released
C5_Witness ==
    \E t \in Threads :
        /\ Returned(t)
        /\ GotName(t)
        /\ ret[t] = {EPERM}
        /\ Cardinality(Calls(trace[t], "vnode_putname")) = 1
        /\ trace[t][Len(trace[t])] = Event("vnode_putname", args[t].vp)

(***************************************************************************)
(* C10: in every invocation that has returned, the number of               *)
(* vnode_putname calls equals the number of non-null names vnode_getname   *)
(* returned, so there is no vnode_putname call when the name was NULL.     *)
(***************************************************************************)
C10_ReleaseOnlyObtained ==
    \A t \in Threads :
        Returned(t) =>
            Cardinality(Calls(trace[t], "vnode_putname"))
                = Cardinality(NameCalls(trace[t], "vnode_getname"))

(***************************************************************************)
(* C9 as stated: every invocation that has returned called proc_selfname,  *)
(* and did so before any other call it made.                               *)
(***************************************************************************)
C9_SelfnameFirst ==
    \A t \in Threads :
        Returned(t) =>
            /\ Calls(trace[t], "proc_selfname") # {}
            /\ \A i \in Calls(trace[t], "proc_selfname") :
                   \A j \in Calls(trace[t], "strcmp_vnodeName") : i < j

(***************************************************************************)
(* C9 amended: proc_selfname is called only right after the file name has  *)
(* been compared and found equal to "ourApplicationsFile", and before the  *)
(* process name is compared; an invocation that has returned called it     *)
(* exactly once if its file name is "ourApplicationsFile" and not at all   *)
(* if its file name is another one or NULL.                                *)
(***************************************************************************)
C9_SelfnameOnlyForGatedFile ==
    \A t \in Threads :
        LET tr == trace[t]
            self == Calls(tr, "proc_selfname")
        IN  /\ \A i \in self :
                   /\ i > 1
                   /\ tr[i - 1] = Event("strcmp_vnodeName", args[t].vp)
                   /\ FileNameIs(t, ourApplicationsFile)
            /\ \A j \in Calls(tr, "strcmp_procName") : self = {j - 1}
            /\ Returned(t) =>
                   Cardinality(self) =
                       IF FileNameIs(t, ourApplicationsFile) THEN 1 ELSE 0

\* an invocation on the protected file: name fetched, compared, then the
\* process name resolved and compared, then the name released
C9_Witness ==
    \E t \in Threads :
        /\ Returned(t)
        /\ trace[t] = << Event("vnode_getname", args[t].vp),
                         Event("strcmp_vnodeName", args[t].vp),
                         Event("proc_selfname", MAXCOMLEN + 1),
                         Event("strcmp_procName", NULL),
                         Event("vnode_putname", args[t].vp) >>

(***************************************************************************)
(* C7: every invocation of demoKextStart makes exactly one                 *)
(* mac_policy_register call, on &policy_configuration (whose mpc_ops is    *)
(* our_ops, whose only populated slot is mpo_vnode_check_open, set to      *)
(* policy_should_allow_open) and &handle, and returns what that call       *)
(* answered; handle is 0 until the first such call and changes only in a   *)
(* step that makes one.                                                    *)
(***************************************************************************)
C7_StartRegistersOnce ==
    /\ [][starts' # starts =>
            /\ regCalls' = regCalls + 1
            /\ regArgs'.mpc = "policy_configuration"
            /\ regArgs'.handlep = "handle"
            /\ policy_configuration.mpc_ops = "our_ops"
            /\ DOMAIN our_ops = {"mpo_vnode_check_open"}
            /\ our_ops.mpo_vnode_check_open = "policy_should_allow_open"
            /\ startRet' = hostStatus']_vars
    /\ [][handle' # handle => regCalls' = regCalls + 1]_vars
    /\ [](regCalls = starts)
    /\ [](regCalls = 0 => handle = 0)

\* a second start after a successful one: the host refused with EEXIST and
\* demoKextStart returned that code, the handle of the first call still set
C7_Witness ==
    /\ starts = 2
    /\ regCalls = 2
    /\ hostStatus = {17}
    /\ startRet = {17}
    /\ handle # 0

(***************************************************************************)
(* C8: no step of a hook invocation, from its entry to its return, changes *)
(* handle, our_ops or policy_configuration; the hook returns only 0 or     *)
(* EPERM; and once it has returned its locals are gone and it holds no     *)
(* name obtained from the host.                                            *)
(***************************************************************************)
C8_HookHasNoSideEffects ==
    /\ [][\A t \in Threads : StepOf(t) => UNCHANGED globals]_vars
    /\ [](\A t \in Threads :
            /\ ret[t] \subseteq {0, EPERM}
            /\ Returned(t) => (locals[t] = NoLocals /\ Held(t) = 0))

\* the denial path has returned: a name and a process name were obtained
\* during the call, and the registration is as it was
C8_Witness ==
    \E t \in Threads :
        /\ Returned(t)
        /\ ret[t] = {EPERM}
        /\ GotName(t)
        /\ Calls(trace[t], "proc_selfname") # {}
        /\ locals[t] = NoLocals
        /\ handle # 0

(***************************************************************************)
(* C6: with the hook running on several threads at once, under every       *)
(* interleaving each invocation returns what the hook's own conditions     *)
(* give on its own inputs, touches only the name of its own vnode, and no  *)
(* step of one thread changes another thread's invocation or the globals;  *)
(* the host's reference count of a name is the number of invocations       *)
(* holding it.                                                             *)
(***************************************************************************)
\* what the hook returns when run alone on (vp, p_comm)
Alone(vp, p_comm) ==
    IF IsGatedFile(vnode_getname(vp))
         /\ IsOtherProcess(proc_selfname(p_comm, MAXCOMLEN + 1))
    THEN EPERM ELSE 0

C6_NoInterference ==
    /\ [](\A t \in Threads :
            /\ Returned(t) => ret[t] = {Alone(args[t].vp, comm[t])}
            /\ \A i \in 1..Len(trace[t]) :
                   trace[t][i][1] \in {"vnode_getname", "strcmp_vnodeName", "vnode_putname"}
                       => trace[t][i][2] = args[t].vp
            /\ pc[t] = "L23" =>
                   locals[t].procName = {proc_selfname(comm[t], MAXCOMLEN + 1)})
    /\ [](\A n \in DOMAIN nameRefs :
            nameRefs[n] = Cardinality({t \in Threads : args[t].vp = n /\ Held(t) = 1}))
    /\ [][\A t \in Threads :
            StepOf(t) =>
                /\ UNCHANGED globals
                /\ \A u \in Threads \ {t} : ~StepOf(u)]_vars

\* two invocations in flight at once on different files for different
\* processes, both past proc_selfname
C6_Witness ==
    /\ pc[1] = "L23"
    /\ pc[2] \in {"L29", "L30"}
    /\ args[1].vp # args[2].vp
    /\ comm[1] # comm[2]
    /\ Held(1) = 1 /\ Held(2) = 1

=============================================================================
